---------------------------- MODULE Spec2Model ----------------------------
(***************************************************************************)
(* A model of the DWD weather dashboard (src/app.py): the station catalog  *)
(* and DWDDataFetcher.find_nearest_station, the synthetic generator        *)
(* DWDDataFetcher.generate_weather_data, the scorer                        *)
(* WeatherAnalyzer.calculate_ssi and the Dash callbacks update_map and     *)
(* update_charts.                                                          *)
(*                                                                         *)
(* Numbers.  The program computes in IEEE doubles; the model computes in   *)
(* exact fixed point:                                                      *)
(*   - a coordinate is an integer number of 1/10000 of a degree in the     *)
(*     dashboard specification and a small grid integer in SpecLocate;     *)
(*   - a weather value (deg C, mm, m/s, minutes, oktas) is an integer      *)
(*     number of tenths;                                                   *)
(*   - a sub-score is an integer number of 1/ScoreUnit (100 is 100 *       *)
(*     ScoreUnit), and SSI, a sum of sub-scores times weights given in     *)
(*     percent, is an integer number of 1/(100 * ScoreUnit);               *)
(*   - a timestamp is an integer number of minutes.                        *)
(* A missing value (pandas NaN / None) is the value NaN below, which no    *)
(* input and no arithmetic on inputs can produce.                          *)
(***************************************************************************)
EXTENDS Integers, Sequences, FiniteSets, TLC

VARIABLES
    stations_df,        \* DWDDataFetcher.stations_df, the station catalog
    op,                 \* the operation that produced the current state
    args,               \* the arguments of that operation (None before any call)
    station,            \* its result: None or Some(record)
    weather_data,       \* the five series last generated / handed to the scorer
    scores,             \* the last result of calculate_ssi
    selected_location,  \* dcc.Store 'selected-location'
    last_click,         \* history: coordinate of the last click carrying lat and lon
    map_fig,            \* figure of 'aoi-map'
    n_clicks,           \* 'refresh-btn' n_clicks
    time_range,         \* 'time-range' value (a digit string)
    charts              \* the last result of update_charts: the figures of
                        \* 'ssi-chart' and 'weather-chart', and the calls made

vars == <<stations_df, op, args, station, weather_data, scores,
          selected_location, last_click, map_fig,
          n_clicks, time_range, charts>>

scoreVars  == <<weather_data, scores>>
dashVars   == <<selected_location, last_click, map_fig,
                n_clicks, time_range, charts>>

----------------------------------------------------------------------------
(* Python's None and an Optional value.                                    *)
None == <<>>
Some(x) == <<x>>
Get(o) == o[1]

(* The outcome of a call that raised exception e instead of returning.     *)
Raised(e) == <<"raised", e>>

(* A NaN cell of a DataFrame.                                              *)
NaN == -999999999
IsNaN(x) == x = NaN

Min2(a, b) == IF a <= b THEN a ELSE b
Max2(a, b) == IF a >= b THEN a ELSE b

----------------------------------------------------------------------------
(* Bounds of the model.                                                    *)
MaxStations == 3      \* longest catalog drawn in SpecLocate

----------------------------------------------------------------------------
(* Configuration, src/app.py:25-27; the coordinates of the dashboard are   *)
(* in 1/10000 of a degree.                                                 *)
DEFAULT_LAT == 535500
DEFAULT_LON == 99900
DEFAULT_ZOOM == 10

(* DWDDataFetcher.get_default_stations: the seven demo stations.           *)
get_default_stations ==
    << [station_id |-> "00954", name |-> "Hamburg-Fuhlsbuettel",
        lat |-> 536332, lon |-> 99881, height |-> 11],
       [station_id |-> "01975", name |-> "Hamburg-Neuwiedenthal",
        lat |-> 534777, lon |-> 98966, height |-> 3],
       [station_id |-> "05516", name |-> "Schleswig",
        lat |-> 545276, lon |-> 95490, height |-> 43],
       [station_id |-> "00691", name |-> "Bremen",
        lat |-> 530475, lon |-> 87981, height |-> 5],
       [station_id |-> "00891", name |-> "Cuxhaven",
        lat |-> 538706, lon |-> 87211, height |-> 5],
       [station_id |-> "03032", name |-> "Luebeck",
        lat |-> 538072, lon |-> 107083, height |-> 15],
       [station_id |-> "01757", name |-> "Kiel-Holtenau",
        lat |-> 543774, lon |-> 101424, height |-> 27] >>

----------------------------------------------------------------------------
(* find_nearest_station.                                                   *)
(*                                                                         *)
(* distances = sqrt((lat_s - lat)^2 + (lon_s - lon)^2), one per row.  The  *)
(* square root is irrational in general, so a distance is represented      *)
(* exactly by its square; sqrt is strictly increasing, so comparing the    *)
(* squares is comparing the distances.                                     *)
SquaredDistances(df, lat, lon) ==
    [i \in 1..Len(df) |->
        (df[i].lat - lat) * (df[i].lat - lat)
      + (df[i].lon - lon) * (df[i].lon - lon)]

(* Series.idxmin: the label of the first occurrence of the minimum.  The   *)
(* scan keeps the running best and replaces it only by a strictly smaller  *)
(* value.                                                                  *)
RECURSIVE idxminScan(_, _, _)
idxminScan(s, i, best) ==
    IF i > Len(s) THEN best
    ELSE idxminScan(s, i + 1, IF s[i] < s[best] THEN i ELSE best)

idxminLast(s) ==
    LET RECURSIVE scan(_, _)
        scan(i, best) ==
            IF i > Len(s) THEN best
            ELSE scan(i + 1, IF s[i] <= s[best] THEN i ELSE best)
    IN scan(2, 1)

idxmin(s) == idxminScan(s, 2, 1)

(* The returned dict: the row's columns plus the distance.  distance_km is *)
(* 111 * sqrt(distance_sq), kept as the exact squared degree distance.     *)
find_nearest_station_unguarded(df, lat, lon) ==
    LET distances == SquaredDistances(df, lat, lon)
    IN IF df = <<>> THEN Raised("ValueError")   \* idxmin of an empty Series
       ELSE LET row == df[idxmin(distances)]
            IN Some([station_id  |-> row.station_id,
                     name        |-> row.name,
                     lat         |-> row.lat,
                     lon         |-> row.lon,
                     height      |-> row.height,
                     distance_sq |-> distances[idxmin(distances)]])

find_nearest_station(df, lat, lon) ==
    IF df = <<>> THEN None
    ELSE LET distances == SquaredDistances(df, lat, lon)
             nearest_idx == idxmin(distances)
             row == df[nearest_idx]
         IN Some([station_id  |-> row.station_id,
                  name        |-> row.name,
                  lat         |-> row.lat,
                  lon         |-> row.lon,
                  height      |-> row.height,
                  distance_sq |-> distances[nearest_idx]])

----------------------------------------------------------------------------
(* SpecLocate: find_nearest_station as a function of the catalog and the   *)
(* query.  Catalogs are all sequences of at most MaxStations stations on   *)
(* the grid Grid x Grid, repeated positions included; the query is any     *)
(* point of the grid.  The function keeps no state, so a behaviour is one  *)
(* call: further calls would reach the same states.                        *)
Grid == {0, 1, 2}

GridStation(i, lat, lon) ==
    [station_id |-> ToString(i), name |-> ToString(i),
     lat |-> lat, lon |-> lon, height |-> 0]

Catalogs ==
    UNION { { [i \in 1..n |-> GridStation(i, p[i][1], p[i][2])] :
                p \in [1..n -> Grid \X Grid] } : n \in 0..MaxStations }

DashIdle ==
    /\ selected_location = [lat |-> DEFAULT_LAT, lon |-> DEFAULT_LON]
    /\ last_click = None
    /\ map_fig = None
    /\ n_clicks = 0
    /\ time_range = <<"7", "2">>
    /\ charts = None

InitLocate ==
    /\ stations_df \in Catalogs
    /\ op = "init"
    /\ args = None
    /\ station = None
    /\ weather_data = None
    /\ scores = None
    /\ DashIdle

LocateCall ==
    /\ op = "init"
    /\ \E lat \in Grid, lon \in Grid :
          /\ args' = Some([lat |-> lat, lon |-> lon])
          /\ station' = find_nearest_station(stations_df, lat, lon)
    /\ op' = "find_nearest_station"
    /\ UNCHANGED <<stations_df, scoreVars, dashVars>>

NextLocate == LocateCall

SpecLocate == InitLocate /\ [][NextLocate]_vars

----------------------------------------------------------------------------
(* generate_weather_data.                                                  *)
MinutesPerHour == 60
HoursPerDay == 24

(* pd.date_range(start, end, freq='H'): start, start + 1h, ... while the   *)
(* value does not exceed end, that is (end - start) div 1h + 1 values when *)
(* start <= end and none otherwise.                                        *)
date_range_open(start, end) ==
    IF start >= end THEN <<>>
    ELSE [i \in 1..((end - start - 1) \div MinutesPerHour + 1) |->
             start + MinutesPerHour * (i - 1)]

date_range(start, end) ==
    IF start > end THEN <<>>
    ELSE [i \in 1..((end - start) \div MinutesPerHour + 1) |->
             start + MinutesPerHour * (i - 1)]

(* datetime.hour of a timestamp.                                           *)
HourOf(t) == (t \div MinutesPerHour) % HoursPerDay

(* daylight = (hour_of_day >= 6) & (hour_of_day <= 20)                      *)
DaylightFrom == 6
DaylightTo == 20

(* A generator that treats every hour as daylight.                         *)
DaylightAlways(t) == TRUE

Daylight(t) == HourOf(t) >= DaylightFrom /\ HourOf(t) <= DaylightTo

(* sunshine_minutes of one hour, in tenths of a minute:                    *)
(* np.where(daylight, 60 * (1 - cloud_factor), 0), cloud_factor a Beta     *)
(* draw in [0,1] given in percent.                                         *)
Sunshine(t, beta) ==
    IF Daylight(t) THEN (60 * 10 * (100 - beta)) \div 100 ELSE 0

(* precipitation_mm: np.where(rain_events, exponential draw, 0).           *)
Precipitation(rain, exponential) == IF rain THEN exponential ELSE 0

(* The random draws of one call are its input `draws`, one record per row: *)
(*   normal_temp, normal_wind, normal_cloud: the value of the series at    *)
(*     that row.  Each is a bounded sinusoid plus Gaussian noise, whose    *)
(*     support is the whole line, so every value can come out;             *)
(*   rain: np.random.random() < 0.2;  exponential: the exponential draw,   *)
(*     >= 0;  beta: the Beta(2,5) draw in percent, 0..100.                 *)
(* `now` is datetime.now(), read once.  station_id is not used.            *)
generate_weather_data(station_id, hours, now, draws) ==
    LET end_date == now
        start_date == end_date - hours * MinutesPerHour
        dr == date_range(start_date, end_date)
        n_hours == Len(dr)
    IN [temperature |->
            [i \in 1..n_hours |-> [datetime |-> dr[i],
                                   temperature_c |-> draws[i].normal_temp]],
        precipitation |->
            [i \in 1..n_hours |->
                [datetime |-> dr[i],
                 precipitation_mm |->
                     Precipitation(draws[i].rain, draws[i].exponential)]],
        wind |->
            [i \in 1..n_hours |-> [datetime |-> dr[i],
                                   wind_speed_ms |-> draws[i].normal_wind]],
        sunshine |->
            [i \in 1..n_hours |->
                [datetime |-> dr[i],
                 sunshine_minutes |-> Sunshine(dr[i], draws[i].beta)]],
        cloudiness |->
            [i \in 1..n_hours |-> [datetime |-> dr[i],
                                   cloud_cover_oktas |-> draws[i].normal_cloud]]]

----------------------------------------------------------------------------
(* calculate_ssi.                                                          *)
ScoreUnit == 10000
Pts(x) == x * ScoreUnit            \* x score points

(* DataFrame.join(other) on the datetime index, how='left': every left row *)
(* in order, once per right row with the same datetime (in right order),   *)
(* or once with NaN in the new column when no right row has it.            *)
(* The concatenation of ss[lo], ..., ss[hi], by halves.                    *)
RECURSIVE Concat(_, _, _)
Concat(ss, lo, hi) ==
    IF lo > hi THEN <<>>
    ELSE IF lo = hi THEN ss[lo]
    ELSE LET mid == (lo + hi) \div 2
         IN Concat(ss, lo, mid) \o Concat(ss, mid + 1, hi)

Flatten(ss) == Concat(ss, 1, Len(ss))

(* The rows of `right` with the datetime of row l, in order.               *)
Matches(right, l) == SelectSeq(right, LAMBDA r : r.datetime = l.datetime)

JoinInner(left, right, col) ==
    LET Rows(l) ==
            LET m == Matches(right, l)
            IN [k \in 1..Len(m) |-> l @@ (col :> m[k][col])]
    IN Flatten([i \in 1..Len(left) |-> Rows(left[i])])

Join(left, right, col) ==
    LET Rows(l) ==
            LET m == Matches(right, l)
            IN IF m = <<>> THEN << l @@ (col :> NaN) >>
               ELSE [k \in 1..Len(m) |-> l @@ (col :> m[k][col])]
    IN Flatten([i \in 1..Len(left) |-> Rows(left[i])])

(* merged: temperature joined with the other four series in the order of   *)
(* the dict built by generate_weather_data.                                *)
Merged(wd) ==
    Join(Join(Join(Join(wd.temperature,
                        wd.precipitation, "precipitation_mm"),
                   wd.wind, "wind_speed_ms"),
              wd.sunshine, "sunshine_minutes"),
         wd.cloudiness, "cloud_cover_oktas")

(* np.clip(x, lo, hi); NaN stays NaN.                                      *)
Clip(x, lo, hi) == IF IsNaN(x) THEN NaN ELSE Max2(lo, Min2(hi, x))

(* Nested np.where on the temperature in tenths of a degree; a comparison  *)
(* with NaN is False, so NaN scores 25.                                    *)
TempScore(temp) ==
    IF ~IsNaN(temp) /\ temp >= 150 /\ temp <= 250 THEN Pts(100)
    ELSE IF ~IsNaN(temp) /\ temp >= 100 /\ temp <= 300 THEN Pts(75)
    ELSE IF ~IsNaN(temp) /\ temp >= 50 /\ temp <= 350 THEN Pts(50)
    ELSE Pts(25)

(* np.clip(100 - precip * 10, 0, 100), precip in tenths of a mm.           *)
PrecipScore(precip) ==
    Clip(IF IsNaN(precip) THEN NaN ELSE Pts(100) - precip * ScoreUnit,
         0, Pts(100))

(* np.clip(100 - (wind - 5) * 6.67, 0, 100), wind in tenths of a m/s:      *)
(* 6.67 points per m/s is 667 thousandths of a point per tenth.            *)
WindScore(wind) ==
    Clip(IF IsNaN(wind) THEN NaN
         ELSE Pts(100) - (wind - 50) * ((667 * ScoreUnit) \div 1000),
         0, Pts(100))

(* 25 + (sun / 60) * 75, sun in tenths of a minute; not clipped.           *)
SunScoreClipped(sun) ==
    IF IsNaN(sun) THEN NaN
    ELSE Clip(Pts(25) + sun * (Pts(75) \div (60 * 10)), 0, Pts(100))

SunScore(sun) ==
    IF IsNaN(sun) THEN NaN ELSE Pts(25) + sun * (Pts(75) \div (60 * 10))

(* cloud = cloud_cover_oktas.clip(0, 8); 100 - (cloud / 8) * 75.           *)
CloudScore(cloud_cover) ==
    LET cloud == Clip(cloud_cover, 0, 80)
    IN IF IsNaN(cloud) THEN NaN ELSE Pts(100) - cloud * (Pts(75) \div (8 * 10))

(* Five equal weights, in percent.                                         *)
weightsEqual == [temp_score |-> 20, precip_score |-> 20, wind_score |-> 20,
                 sun_score |-> 20, cloud_score |-> 20]

(* weights, in percent.                                                    *)
weights == [temp_score |-> 15, precip_score |-> 35, wind_score |-> 30,
            sun_score |-> 10, cloud_score |-> 10]

(* sum(scores[col] * weights[col]); NaN if any term is NaN.  The result is *)
(* in 1/(100 * ScoreUnit).                                                 *)
WeightedSum(t, p, w, s, c) ==
    IF IsNaN(t) \/ IsNaN(p) \/ IsNaN(w) \/ IsNaN(s) \/ IsNaN(c) THEN NaN
    ELSE t * weights.temp_score + p * weights.precip_score
       + w * weights.wind_score + s * weights.sun_score
       + c * weights.cloud_score

SSIPts(x) == x * 100 * ScoreUnit   \* x as an SSI value

(* pd.cut(SSI, bins=[0, 40, 70, 100], labels=[Poor, Moderate, Good]):      *)
(* right-closed bins (0,40], (40,70], (70,100]; every other value, NaN     *)
(* included, gets no label.                                                *)
NaNLabel == "NaN"

Cut(ssi) ==
    IF IsNaN(ssi) THEN NaNLabel
    ELSE IF ssi > SSIPts(0) /\ ssi <= SSIPts(40) THEN "Poor"
    ELSE IF ssi > SSIPts(40) /\ ssi <= SSIPts(70) THEN "Moderate"
    ELSE IF ssi > SSIPts(70) /\ ssi <= SSIPts(100) THEN "Good"
    ELSE NaNLabel

(* scores['category'].map({...}); a missing category maps to NaN.          *)
ColorMap(category) ==
    CASE category = "Poor" -> "#FF4444"
      [] category = "Moderate" -> "#FFA500"
      [] category = "Good" -> "#44FF44"
      [] OTHER -> NaNLabel

ScoreRow(m) ==
    LET t == TempScore(m.temperature_c)
        p == PrecipScore(m.precipitation_mm)
        w == WindScore(m.wind_speed_ms)
        s == SunScore(m.sunshine_minutes)
        c == CloudScore(m.cloud_cover_oktas)
        ssi == WeightedSum(t, p, w, s, c)
    IN [datetime |-> m.datetime,
        temp_score |-> t, precip_score |-> p, wind_score |-> w,
        sun_score |-> s, cloud_score |-> c,
        SSI |-> ssi, category |-> Cut(ssi), color |-> ColorMap(Cut(ssi))]

(* No check of lengths or timestamps is made: the result has one row per   *)
(* row of the joined frame.                                                *)
calculate_ssi(wd) ==
    LET merged == Merged(wd)
    IN [i \in 1..Len(merged) |-> ScoreRow(merged[i])]

----------------------------------------------------------------------------
(* The scorer applied to the series held in weather_data.                  *)
ScoreCall ==
    /\ op = "generate_weather_data"
    /\ scores' = Some(calculate_ssi(Get(weather_data)))
    /\ op' = "calculate_ssi"
    /\ UNCHANGED <<stations_df, args, station, weather_data, dashVars>>

(* The scorer applied to given series wd.                                  *)
ScoreInput(wd) ==
    /\ weather_data' = Some(wd)
    /\ scores' = Some(calculate_ssi(wd))
    /\ op' = "calculate_ssi"
    /\ UNCHANGED <<stations_df, args, station, dashVars>>

InitIdle ==
    /\ stations_df = get_default_stations
    /\ op = "init"
    /\ args = None
    /\ station = None
    /\ weather_data = None
    /\ scores = None
    /\ DashIdle

(* SpecScore: calculate_ssi on one aligned row, over input values on and   *)
(* around every threshold of the sub-scores, negative and very large       *)
(* values included (all in tenths).  The scorer keeps no state, so a       *)
(* behaviour is one call.                                                  *)
TempValues == {-100, 49, 50, 99, 100, 149, 150, 200, 250, 251, 300, 301,
               350, 351, 10000}
PrecipValues == {-10, 0, 50, 100, 101, 5000}
WindValues == {-50, 50, 125, 199, 200, 10000}
SunValues == {-1000, -700, 0, 200, 600, 610, 1000, 1200}
CloudValues == {-10, 0, 40, 80, 1000}

OneRow(t, T, P, W, S, C) ==
    [temperature   |-> << [datetime |-> t, temperature_c |-> T] >>,
     precipitation |-> << [datetime |-> t, precipitation_mm |-> P] >>,
     wind          |-> << [datetime |-> t, wind_speed_ms |-> W] >>,
     sunshine      |-> << [datetime |-> t, sunshine_minutes |-> S] >>,
     cloudiness    |-> << [datetime |-> t, cloud_cover_oktas |-> C] >>]

ScoreOneRow ==
    /\ op = "init"
    /\ \E T \in TempValues, P \in PrecipValues, W \in WindValues,
          S \in SunValues, C \in CloudValues :
            ScoreInput(OneRow(0, T, P, W, S, C))

NextScore == ScoreOneRow

SpecScore == InitIdle /\ [][NextScore]_vars

----------------------------------------------------------------------------
(* SpecJoin: calculate_ssi on five series of any lengths with at most      *)
(* MaxTotalRows rows in all, and timestamps drawn, repeats included, from  *)
(* two hours.  The value of a row is its position in its series, so that   *)
(* the rows of a series are told apart in the joined frame.                *)
MaxTotalRows == 7

Stamps == {0, MinutesPerHour}

StampSeqs(k) == UNION { [1..n -> Stamps] : n \in 0..k }

SeriesOf(ts, col) ==
    [i \in 1..Len(ts) |-> ("datetime" :> ts[i]) @@ (col :> 10 * i)]

ScoreSeries ==
    /\ op = "init"
    /\ \E tt \in StampSeqs(MaxTotalRows) :
       \E tp \in StampSeqs(MaxTotalRows - Len(tt)) :
       \E tw \in StampSeqs(MaxTotalRows - Len(tt) - Len(tp)) :
       \E ts \in StampSeqs(MaxTotalRows - Len(tt) - Len(tp) - Len(tw)) :
       \E tc \in StampSeqs(MaxTotalRows - Len(tt) - Len(tp) - Len(tw) - Len(ts)) :
          ScoreInput([temperature   |-> SeriesOf(tt, "temperature_c"),
                      precipitation |-> SeriesOf(tp, "precipitation_mm"),
                      wind          |-> SeriesOf(tw, "wind_speed_ms"),
                      sunshine      |-> SeriesOf(ts, "sunshine_minutes"),
                      cloudiness    |-> SeriesOf(tc, "cloud_cover_oktas")])

NextJoin == ScoreSeries

SpecJoin == InitIdle /\ [][NextJoin]_vars

----------------------------------------------------------------------------
(* SpecGen: generate_weather_data for every duration 0..MaxHours, read     *)
(* times on both edges of the daylight window, and every combination of    *)
(* draws per row, followed by the scorer on its output.  A behaviour is    *)
(* one call of each: the generator keeps no state between calls.           *)
MaxHours == 1

Midnight == HoursPerDay * MinutesPerHour    \* 00:00 of the second day
Nows == { Midnight + 6 * MinutesPerHour,             \* 06:00, after 05:00
          Midnight + 21 * MinutesPerHour + 30 }      \* 21:30, after 20:30

RowDraws ==
    [normal_temp : {-100, 200}, rain : BOOLEAN, exponential : {150},
     normal_wind : {0, 300}, beta : {0, 40, 100}, normal_cloud : {-10, 90}]

StationIds == {"00954", "01975"}

GenerateCall ==
    /\ op = "init"
    /\ \E sid \in StationIds, hours \in 0..MaxHours, now \in Nows :
          \E draws \in [1..(hours + 1) -> RowDraws] :
              /\ args' = Some([station_id |-> sid, hours |-> hours,
                               now |-> now])
              /\ weather_data' =
                     Some(generate_weather_data(sid, hours, now, draws))
    /\ op' = "generate_weather_data"
    /\ UNCHANGED <<stations_df, station, scores, dashVars>>

NextGen == GenerateCall \/ ScoreCall

SpecGen == InitIdle /\ [][NextGen]_vars

----------------------------------------------------------------------------
(* The Dash callbacks.                                                     *)

(* A dict is a function on its keys; clickData is None or Some(dict), so   *)
(* that None and the empty dict {} stay apart (both are falsy).            *)
Truthy(o) == o # None /\ DOMAIN Get(o) # {}

MapFigure(df, lat, lon) ==
    [stations |-> [i \in 1..Len(df) |->
                      [lat |-> df[i].lat, lon |-> df[i].lon,
                       text |-> df[i].name]],
     selected |-> [lat |-> lat, lon |-> lon],
     center   |-> [lat |-> lat, lon |-> lon],
     zoom     |-> DEFAULT_ZOOM]

(* update_map: (fig, {'lat': lat, 'lon': lon}), or IndexError from         *)
(* clickData['points'][0] on an empty list.                                *)
update_map_lat_only(clickData, current_location) ==
    LET cd == Get(clickData)
        clicked == Truthy(clickData) /\ "points" \in DOMAIN cd
        point == cd.points[1]
        taken == clicked /\ "lat" \in DOMAIN point
        lat == IF taken THEN point.lat ELSE current_location.lat
        lon == IF taken /\ "lon" \in DOMAIN point THEN point.lon
               ELSE current_location.lon
    IN IF clicked /\ cd.points = <<>> THEN Raised("IndexError")
       ELSE Some([fig |-> MapFigure(stations_df, lat, lon),
                  location |-> [lat |-> lat, lon |-> lon]])

update_map(clickData, current_location) ==
    LET cd == Get(clickData)
        clicked == Truthy(clickData) /\ "points" \in DOMAIN cd
        point == cd.points[1]
        taken == clicked /\ "lat" \in DOMAIN point /\ "lon" \in DOMAIN point
        lat == IF taken THEN point.lat ELSE current_location.lat
        lon == IF taken THEN point.lon ELSE current_location.lon
    IN IF clicked /\ cd.points = <<>> THEN Raised("IndexError")
       ELSE Some([fig |-> MapFigure(stations_df, lat, lon),
                  location |-> [lat |-> lat, lon |-> lon]])

(* int(hours) on the dropdown's value, a string of decimal digits.         *)
DigitValue(d) ==
    CASE d = "0" -> 0 [] d = "1" -> 1 [] d = "2" -> 2 [] d = "3" -> 3
      [] d = "4" -> 4 [] d = "5" -> 5 [] d = "6" -> 6 [] d = "7" -> 7
      [] d = "8" -> 8 [] d = "9" -> 9

RECURSIVE IntOf(_, _)
IntOf(str, acc) ==
    IF str = <<>> THEN acc ELSE IntOf(Tail(str), 10 * acc + DigitValue(Head(str)))

int(str) == IntOf(str, 0)

(* The options of the 'time-range' dropdown: '24', '72', '168'.            *)
TimeRangeOptions == { <<"2", "4">>, <<"7", "2">>, <<"1", "6", "8">> }

Column(series, col) == [i \in 1..Len(series) |-> series[i][col]]

EmptyFigure == [traces |-> <<>>, hlines |-> <<>>]

SsiFigure(ssi_data) ==
    [traces |-> << [name |-> "SSI",
                    x |-> Column(ssi_data, "datetime"),
                    y |-> Column(ssi_data, "SSI")] >>,
     hlines |-> <<70, 40>>]

WeatherFigure(wd) ==
    [traces |->
        << [name |-> "Temp", x |-> Column(wd.temperature, "datetime"),
            y |-> Column(wd.temperature, "temperature_c")],
           [name |-> "Wind", x |-> Column(wd.wind, "datetime"),
            y |-> Column(wd.wind, "wind_speed_ms")],
           [name |-> "Rain", x |-> Column(wd.precipitation, "datetime"),
            y |-> Column(wd.precipitation, "precipitation_mm")],
           [name |-> "Sun", x |-> Column(wd.sunshine, "datetime"),
            y |-> Column(wd.sunshine, "sunshine_minutes")] >>,
     hlines |-> <<>>]

(* update_charts with a fixed duration of one day in place of int(hours). *)
update_charts_one_day(location, clicks, hours, now, draws) ==
    LET found == find_nearest_station(stations_df, location.lat, location.lon)
        wd == generate_weather_data(Get(found).station_id, HoursPerDay,
                                    now, draws)
        ssi_data == calculate_ssi(wd)
        locate == [fn |-> "find_nearest_station",
                   lat |-> location.lat, lon |-> location.lon]
    IN IF found = None
       THEN [ssi_fig |-> EmptyFigure, weather_fig |-> EmptyFigure,
             calls |-> <<locate>>]
       ELSE [ssi_fig |-> SsiFigure(ssi_data),
             weather_fig |-> WeatherFigure(wd),
             calls |-> << locate,
                          [fn |-> "generate_weather_data",
                           station_id |-> Get(found).station_id,
                           hours |-> HoursPerDay, returned |-> wd],
                          [fn |-> "calculate_ssi", weather_data |-> wd] >>]

(* update_charts.  n_clicks is not read.  now and draws are the clock and  *)
(* the random draws generate_weather_data takes during the call.  Beside   *)
(* the two figures the result lists the calls made, in order, with their   *)
(* arguments and, for generate_weather_data, what it returned.             *)
update_charts(location, clicks, hours, now, draws) ==
    LET found == find_nearest_station(stations_df, location.lat, location.lon)
        wd == generate_weather_data(Get(found).station_id, int(hours),
                                    now, draws)
        ssi_data == calculate_ssi(wd)
        locate == [fn |-> "find_nearest_station",
                   lat |-> location.lat, lon |-> location.lon]
    IN IF found = None
       THEN [ssi_fig |-> EmptyFigure, weather_fig |-> EmptyFigure,
             calls |-> <<locate>>]
       ELSE [ssi_fig |-> SsiFigure(ssi_data),
             weather_fig |-> WeatherFigure(wd),
             calls |-> << locate,
                          [fn |-> "generate_weather_data",
                           station_id |-> Get(found).station_id,
                           hours |-> int(hours), returned |-> wd],
                          [fn |-> "calculate_ssi", weather_data |-> wd] >>]

----------------------------------------------------------------------------
(* SpecDash: the dashboard.  Each action is one event with the callback it *)
(* fires, run to completion.                                               *)
MaxClicks == 1          \* refresh clicks counted

(* What the map can send: nothing, an empty dict, a dict without 'points', *)
(* an empty list of points, a first point with both, one or none of 'lat'  *)
(* and 'lon', and two points.  The clicked coordinates are one near Bremen *)
(* and one near Schleswig.                                                 *)
ClickDatas ==
    { None, Some(<<>>), Some([curveNumber |-> 0]), Some([points |-> <<>>]),
      Some([points |-> << [curveNumber |-> 0] >>]),
      Some([points |-> << [lat |-> 530000] >>]),
      Some([points |-> << [lon |-> 88000] >>]),
      Some([points |-> << [curveNumber |-> 0],
                          [lat |-> 530000, lon |-> 88000] >>]),
      Some([points |-> << [lat |-> 530000, lon |-> 88000] >>]),
      Some([points |-> << [lat |-> 545000, lon |-> 95000],
                          [lat |-> 530000, lon |-> 88000] >>]) }

(* The claim's reading of a click: its first point carries lat and lon.    *)
CarriesCoordinates(clickData) ==
    /\ clickData # None
    /\ DOMAIN Get(clickData) # {}
    /\ "points" \in DOMAIN Get(clickData)
    /\ Len(Get(clickData).points) >= 1
    /\ {"lat", "lon"} \subseteq DOMAIN Get(clickData).points[1]

(* The draws of one call in the dashboard: a stream that cycles through a  *)
(* best, a worst and a middling hour, started at the first or the second;  *)
(* the clock reads 06:00.                                                  *)
DrawCycle ==
    << [normal_temp |-> 200, rain |-> FALSE, exponential |-> 150,
        normal_wind |-> 0, beta |-> 0, normal_cloud |-> -10],
       [normal_temp |-> -100, rain |-> TRUE, exponential |-> 150,
        normal_wind |-> 300, beta |-> 100, normal_cloud |-> 90],
       [normal_temp |-> 120, rain |-> TRUE, exponential |-> 20,
        normal_wind |-> 80, beta |-> 40, normal_cloud |-> 40] >>

DrawStream(first, n) ==
    [i \in 1..n |-> DrawCycle[((first + i) % Len(DrawCycle)) + 1]]

DashNows == { Midnight + 6 * MinutesPerHour }

InitDash ==
    /\ stations_df \in {get_default_stations, <<>>}
    /\ op = "init"
    /\ args = None
    /\ station = None
    /\ weather_data = None
    /\ scores = None
    /\ DashIdle

(* A click on the map (or the initial call with no click) and update_map.  *)
(* An exception leaves the outputs as they were.                           *)
MapClick ==
    \E clickData \in ClickDatas :
        LET out == update_map(clickData, selected_location)
        IN /\ IF out = Raised("IndexError")
              THEN UNCHANGED <<map_fig, selected_location>>
              ELSE /\ map_fig' = Some(Get(out).fig)
                   /\ selected_location' = Get(out).location
           /\ last_click' =
                 IF CarriesCoordinates(clickData)
                 THEN Some([lat |-> Get(clickData).points[1].lat,
                            lon |-> Get(clickData).points[1].lon])
                 ELSE last_click
           /\ op' = "update_map"
           /\ args' = Some([clickData |-> clickData,
                            before |-> selected_location])
           /\ UNCHANGED <<stations_df, station, scoreVars,
                          n_clicks, time_range, charts>>

(* update_charts with the current inputs, for trigger `why`.               *)
RunCharts(why, clicks, hours) ==
    \E now \in DashNows, first \in {0, 1} :
        /\ charts' = Some(update_charts(selected_location, clicks, hours, now,
                                        DrawStream(first, int(hours) + 1)))
        /\ n_clicks' = clicks
        /\ time_range' = hours
        /\ op' = "update_charts"
        /\ args' = Some([trigger |-> why])
        /\ UNCHANGED <<stations_df, station, scoreVars, selected_location,
                       last_click, map_fig>>

(* The stored location was written (also at page load).                    *)
ChartsOnLocation == RunCharts("selected-location", n_clicks, time_range)

(* A click on 'refresh-btn'.                                               *)
ChartsOnRefresh ==
    /\ n_clicks < MaxClicks
    /\ RunCharts("refresh-btn", n_clicks + 1, time_range)

(* Another option of 'time-range' is chosen.                               *)
ChartsOnTimeRange ==
    \E hours \in TimeRangeOptions \ {time_range} :
        RunCharts("time-range", n_clicks, hours)

NextDash ==
    \/ MapClick
    \/ ChartsOnLocation
    \/ ChartsOnRefresh
    \/ ChartsOnTimeRange

SpecDash == InitDash /\ [][NextDash]_vars

----------------------------------------------------------------------------
(* Properties of find_nearest_station, under SpecLocate.                   *)

Located == op = "find_nearest_station"

(* Squared degree distance from the query held in args to catalog row j.   *)
QueryDist(j) ==
    (stations_df[j].lat - Get(args).lat) * (stations_df[j].lat - Get(args).lat)
  + (stations_df[j].lon - Get(args).lon) * (stations_df[j].lon - Get(args).lon)

(* The returned record is catalog row k.                                   *)
IsRow(k) ==
    /\ Get(station).station_id = stations_df[k].station_id
    /\ Get(station).name = stations_df[k].name
    /\ Get(station).lat = stations_df[k].lat
    /\ Get(station).lon = stations_df[k].lon
    /\ Get(station).height = stations_df[k].height

(* C2: on a non-empty catalog the result is a catalog record whose squared *)
(* degree distance to the query is at most that of every record, and among *)
(* the records at that minimum distance it is the first in catalog order.  *)
C2_NearestFirstMinimum ==
    (Located /\ stations_df # <<>>) =>
        /\ station # None
        /\ Len(station) = 1
        /\ \E k \in 1..Len(stations_df) :
              /\ IsRow(k)
              /\ \A j \in 1..Len(stations_df) : QueryDist(k) <= QueryDist(j)
              /\ \A j \in 1..(k - 1) : QueryDist(j) > QueryDist(k)

(* A tie: rows 2 and 3 are at the same, minimum, distance, row 1 is        *)
(* farther, and row 2 is returned.                                         *)
C2_Witness ==
    /\ Located
    /\ Len(stations_df) = 3
    /\ QueryDist(2) = QueryDist(3)
    /\ QueryDist(1) > QueryDist(2)
    /\ stations_df[2].lat # stations_df[3].lat
    /\ station # None
    /\ IsRow(2)

(* C3: on an empty catalog the result is None, for every query, and the    *)
(* call does not raise; a record is returned exactly when the catalog is   *)
(* non-empty.                                                              *)
C3_EmptyCatalogAbsent ==
    Located =>
        /\ stations_df = <<>> => station = None
        /\ station # Raised("ValueError")
        /\ (station # None) <=> (stations_df # <<>>)

C3_Witness ==
    /\ Located
    /\ stations_df = <<>>
    /\ station = None
    /\ Get(args).lat # Get(args).lon

----------------------------------------------------------------------------
(* Properties of calculate_ssi, under SpecScore (one aligned row).         *)

Scored == op = "calculate_ssi"

(* The scored rows of the state, none before the scorer has run.           *)
ScoredRows == IF Scored THEN Get(scores) ELSE <<>>

(* The value of column col in the only row of the input series key.        *)
InputOf(key, col) == Get(weather_data)[key][1][col]

(* C1: every row has the category given by the three-way comparison        *)
(* SSI <= 40 -> Poor, SSI <= 70 -> Moderate, else Good, also when SSI <= 0 *)
(* or SSI > 100, and no row is without a category.                         *)
C1_CategoryByThreeWayComparison ==
    \A i \in 1..Len(ScoredRows) :
        LET r == ScoredRows[i]
        IN r.category = IF r.SSI <= SSIPts(40) THEN "Poor"
                        ELSE IF r.SSI <= SSIPts(70) THEN "Moderate"
                        ELSE "Good"

(* C5: temp_score is one of 25, 50, 75, 100; precip_score and wind_score   *)
(* lie in [0,100]; cloud_score lies in [25,100]; sun_score is exactly      *)
(* 25 + 75 * S / 60 for the input sunshine S, unclipped, and so is above   *)
(* 100 whenever S is above 60 minutes.                                     *)
C5_SubScoreRanges ==
    \A i \in 1..Len(ScoredRows) :
        LET r == ScoredRows[i]
            S == InputOf("sunshine", "sunshine_minutes")
        IN /\ r.temp_score \in {25 * ScoreUnit, 50 * ScoreUnit,
                                75 * ScoreUnit, 100 * ScoreUnit}
           /\ r.precip_score >= 0 /\ r.precip_score <= 100 * ScoreUnit
           /\ r.wind_score >= 0 /\ r.wind_score <= 100 * ScoreUnit
           /\ r.cloud_score >= 25 * ScoreUnit
           /\ r.cloud_score <= 100 * ScoreUnit
           /\ 600 * (r.sun_score - 25 * ScoreUnit) = 75 * ScoreUnit * S
           /\ S > 600 => r.sun_score > 100 * ScoreUnit

(* Over 60 minutes of sunshine with a negative temperature, negative       *)
(* precipitation and a very large wind speed and cloud cover.              *)
C5_Witness ==
    /\ Scored
    /\ Len(ScoredRows) = 1
    /\ InputOf("sunshine", "sunshine_minutes") = 1200
    /\ InputOf("temperature", "temperature_c") < 0
    /\ InputOf("precipitation", "precipitation_mm") < 0
    /\ InputOf("wind", "wind_speed_ms") = 10000
    /\ InputOf("cloudiness", "cloud_cover_oktas") = 1000
    /\ ScoredRows[1].sun_score = 175 * ScoreUnit
    /\ ScoredRows[1].precip_score = 100 * ScoreUnit
    /\ ScoredRows[1].wind_score = 0
    /\ ScoredRows[1].cloud_score = 25 * ScoreUnit

(* C6: 100 * SSI = 15 temp + 35 precip + 30 wind + 10 sun + 10 cloud, the  *)
(* weights summing to 1; five sub-scores of 100 give SSI 100, Good,        *)
(* #44FF44, and sub-scores (50, 0, 0, 25, 100) give SSI 20, Poor, #FF4444. *)
C6_WeightedSum ==
    /\ weights.temp_score + weights.precip_score + weights.wind_score
         + weights.sun_score + weights.cloud_score = 100
    /\ \A i \in 1..Len(ScoredRows) :
        LET r == ScoredRows[i]
        IN /\ r.SSI = 15 * r.temp_score + 35 * r.precip_score
                    + 30 * r.wind_score + 10 * r.sun_score
                    + 10 * r.cloud_score
           /\ ( /\ r.temp_score = 100 * ScoreUnit
                /\ r.precip_score = 100 * ScoreUnit
                /\ r.wind_score = 100 * ScoreUnit
                /\ r.sun_score = 100 * ScoreUnit
                /\ r.cloud_score = 100 * ScoreUnit )
              => ( /\ r.SSI = 100 * 100 * ScoreUnit
                   /\ r.category = "Good"
                   /\ r.color = "#44FF44" )
           /\ ( /\ r.temp_score = 50 * ScoreUnit
                /\ r.precip_score = 0
                /\ r.wind_score = 0
                /\ r.sun_score = 25 * ScoreUnit
                /\ r.cloud_score = 100 * ScoreUnit )
              => ( /\ r.SSI = 20 * 100 * ScoreUnit
                   /\ r.category = "Poor"
                   /\ r.color = "#FF4444" )

(* 20 degrees, no rain, 5 m/s, 60 minutes of sun, clear sky: five          *)
(* sub-scores of 100.                                                      *)
C6_Witness ==
    /\ Scored
    /\ Len(ScoredRows) = 1
    /\ InputOf("temperature", "temperature_c") = 200
    /\ InputOf("wind", "wind_speed_ms") = 50
    /\ ScoredRows[1].temp_score = 100 * ScoreUnit
    /\ ScoredRows[1].precip_score = 100 * ScoreUnit
    /\ ScoredRows[1].wind_score = 100 * ScoreUnit
    /\ ScoredRows[1].sun_score = 100 * ScoreUnit
    /\ ScoredRows[1].cloud_score = 100 * ScoreUnit
    /\ ScoredRows[1].SSI = 100 * 100 * ScoreUnit
    /\ ScoredRows[1].color = "#44FF44"

----------------------------------------------------------------------------
(* Properties of calculate_ssi on series that need not be aligned, under   *)
(* SpecJoin.                                                               *)

SeriesKeys == {"temperature", "precipitation", "wind", "sunshine", "cloudiness"}

StampsOf(series) == { series[i].datetime : i \in 1..Len(series) }

Unique(series) ==
    \A i, j \in 1..Len(series) :
        series[i].datetime = series[j].datetime => i = j

(* Equal lengths and, position by position, equal timestamps.              *)
Aligned(wd) ==
    \A k \in SeriesKeys :
        /\ Len(wd[k]) = Len(wd.temperature)
        /\ \A i \in 1..Len(wd[k]) :
              wd[k][i].datetime = wd.temperature[i].datetime

----------------------------------------------------------------------------
(* Properties of generate_weather_data and of the scorer on its output,    *)
(* under SpecGen.                                                          *)

Generated == op \in {"generate_weather_data", "calculate_ssi"}

(* C4: for every station_id and duration h >= 0 the result has exactly the *)
(* five series, each of h + 1 rows, all with the same timestamps, which    *)
(* start at now - h hours, end at now and increase by exactly one hour;    *)
(* for h = 0 each series has one row.                                      *)
C4_FiveAlignedHourlySeries ==
    Generated =>
        LET wd == Get(weather_data)
            h == Get(args).hours
            now == Get(args).now
        IN /\ DOMAIN wd = SeriesKeys
           /\ \A k \in SeriesKeys :
                 /\ Len(wd[k]) = h + 1
                 /\ \A i \in 1..Len(wd[k]) :
                       wd[k][i].datetime = wd.temperature[i].datetime
                 /\ wd[k][1].datetime = now - 60 * h
                 /\ wd[k][Len(wd[k])].datetime = now
                 /\ \A i \in 1..(Len(wd[k]) - 1) :
                       wd[k][i + 1].datetime = wd[k][i].datetime + 60
           /\ h = 0 => \A k \in SeriesKeys : Len(wd[k]) = 1

C4_Witness ==
    /\ op = "generate_weather_data"
    /\ Get(args).hours = 1
    /\ Len(Get(weather_data).sunshine) = 2
    /\ Get(weather_data).sunshine[1].datetime = Get(args).now - 60
    /\ Get(weather_data).cloudiness[2].datetime = Get(args).now

(* C10: in generator output sunshine_minutes lies in [0,60] and is 0 at    *)
(* every timestamp whose hour is outside 6..20, and precipitation_mm is    *)
(* not negative; the scorer then gives every row a sun_score in [25,100],  *)
(* an SSI in [8.75,100], one of the three categories and one of the three  *)
(* colours.                                                                *)
C10_GeneratorOutputInRange ==
    /\ Generated =>
          LET wd == Get(weather_data)
          IN /\ \A i \in 1..Len(wd.sunshine) :
                   LET hour == (wd.sunshine[i].datetime \div 60) % 24
                   IN /\ wd.sunshine[i].sunshine_minutes >= 0
                      /\ wd.sunshine[i].sunshine_minutes <= 600
                      /\ (hour < 6 \/ hour > 20) =>
                            wd.sunshine[i].sunshine_minutes = 0
             /\ \A i \in 1..Len(wd.precipitation) :
                   wd.precipitation[i].precipitation_mm >= 0
    /\ \A i \in 1..Len(ScoredRows) :
          LET r == ScoredRows[i]
          IN /\ r.sun_score >= 25 * ScoreUnit
             /\ r.sun_score <= 100 * ScoreUnit
             /\ r.SSI >= 875 * ScoreUnit
             /\ r.SSI <= 100 * 100 * ScoreUnit
             /\ r.category \in {"Poor", "Moderate", "Good"}
             /\ r.color \in {"#FF4444", "#FFA500", "#44FF44"}

(* Read at 06:00: the 05:00 row is dark and scores the minimum 8.75, the   *)
(* 06:00 row has 60 minutes of sun and scores 100.                         *)
C10_Witness ==
    /\ Scored
    /\ Len(ScoredRows) = 2
    /\ Get(weather_data).sunshine[1].sunshine_minutes = 0
    /\ Get(weather_data).precipitation[1].precipitation_mm > 0
    /\ ScoredRows[1].SSI = 875 * ScoreUnit
    /\ ScoredRows[1].category = "Poor"
    /\ Get(weather_data).sunshine[2].sunshine_minutes = 600
    /\ ScoredRows[2].SSI = 100 * 100 * ScoreUnit
    /\ ScoredRows[2].category = "Good"

----------------------------------------------------------------------------
(* Properties of the callbacks, under SpecDash.                            *)

(* C8: every run of update_charts, whatever triggered it, first looks up   *)
(* the nearest station of the stored location; with no station it returns  *)
(* two empty figures and calls neither the generator nor the scorer; with  *)
(* a station it calls generate_weather_data once, with the duration        *)
(* selected in the dropdown (24, 72 or 168 hours), and then calculate_ssi  *)
(* once, on exactly the series the generator returned.                     *)
C8_LocateGenerateScore ==
    op = "update_charts" =>
        LET c == Get(charts)
        IN /\ Get(args).trigger \in {"selected-location", "refresh-btn",
                                     "time-range"}
           /\ Len(c.calls) >= 1
           /\ c.calls[1].fn = "find_nearest_station"
           /\ c.calls[1].lat = selected_location.lat
           /\ c.calls[1].lon = selected_location.lon
           /\ IF stations_df = <<>>
              THEN /\ Len(c.calls) = 1
                   /\ c.ssi_fig.traces = <<>>
                   /\ c.weather_fig.traces = <<>>
              ELSE /\ Len(c.calls) = 3
                   /\ c.calls[2].fn = "generate_weather_data"
                   /\ \/ time_range = <<"2", "4">> /\ c.calls[2].hours = 24
                      \/ time_range = <<"7", "2">> /\ c.calls[2].hours = 72
                      \/ time_range = <<"1", "6", "8">> /\ c.calls[2].hours = 168
                   /\ \E i \in 1..Len(stations_df) :
                         c.calls[2].station_id = stations_df[i].station_id
                   /\ Len(c.calls[2].returned.temperature) = c.calls[2].hours + 1
                   /\ c.calls[3].fn = "calculate_ssi"
                   /\ c.calls[3].weather_data = c.calls[2].returned
                   /\ Len(c.ssi_fig.traces) = 1
                   /\ Len(c.ssi_fig.traces[1].y) = c.calls[2].hours + 1
                   /\ Len(c.weather_fig.traces) = 4

(* The dropdown is changed to 7 days with a station nearby: the chain of   *)
(* three calls, 169 rows generated and scored.                             *)
C8_Witness ==
    /\ op = "update_charts"
    /\ Get(args).trigger = "time-range"
    /\ time_range = <<"1", "6", "8">>
    /\ stations_df # <<>>
    /\ Len(Get(charts).calls) = 3
    /\ Get(charts).calls[2].hours = 168
    /\ Len(Get(charts).calls[3].weather_data.sunshine) = 169
    /\ Len(Get(charts).ssi_fig.traces[1].x) = 169

(* C9: the stored location is the coordinate of the last click whose first *)
(* point carried both 'lat' and 'lon', or the default if there was none;   *)
(* an update_map call whose click data is absent, lacks 'points' or has a  *)
(* first point without 'lat' or 'lon' leaves it as it was; the 'Selected'  *)
(* marker and the centre of the map are at the stored location.            *)
C9_StoredLocationIsLastClick ==
    /\ selected_location =
          IF last_click = None
          THEN [lat |-> DEFAULT_LAT, lon |-> DEFAULT_LON]
          ELSE Get(last_click)
    /\ (op = "update_map" /\ ~CarriesCoordinates(Get(args).clickData)) =>
          selected_location = Get(args).before
    /\ map_fig # None =>
          /\ Get(map_fig).selected = selected_location
          /\ Get(map_fig).center = selected_location

(* After a click near Bremen a click whose first point has only 'lat'      *)
(* arrives: the store and the marker stay near Bremen.                     *)
C9_Witness ==
    /\ op = "update_map"
    /\ Get(args).clickData = Some([points |-> << [lat |-> 530000] >>])
    /\ last_click = Some([lat |-> 530000, lon |-> 88000])
    /\ Get(args).before = [lat |-> 530000, lon |-> 88000]
    /\ selected_location = [lat |-> 530000, lon |-> 88000]
    /\ Get(map_fig).selected = [lat |-> 530000, lon |-> 88000]

============================================================================
